---- MODULE Spec2Model ----
(***************************************************************************)
(* The "cdk" commands of polygon-cli: fork resolution, the ordered and     *)
(* rate-limited assembly of contract snapshots, the rollup / rollup-type   *)
(* enumerations and the rollup manager -> bridge -> GER chain walk.        *)
(*                                                                         *)
(* One behaviour is one run of one command.  Every read issued against a   *)
(* contract handle is answered by the chain: either a value or a transport *)
(* error, chosen by the environment at the moment of the call.  Everything *)
(* the run does that is visible from outside (reads, pauses, resolutions,  *)
(* function returns, printing, starting a watch) is appended to trace.     *)
(***************************************************************************)
EXTENDS Integers, Sequences, FiniteSets, TLC

\* ------------------------------------------------------------------ bounds
\* Largest rollup / rollup-type count the chain reports in the model.
MaxCount == 3
\* How far below 2^32 - 1 the large counts and the late loop positions reach.
NearMax == 3
\* Most indexed reads followed in one run of an enumeration loop taken on its own.
MaxLoopReads == 6
\* Most logs the chain delivers to one watch.
MaxLogs == 3

\* ------------------------------------------------------- program constants
etrog == 7
elderberry == 9
banana == 12

ArgRollupManagerAddress == "rollup-manager-address"

\* contractRequestInterval, in milliseconds
contractRequestInterval == 200

knownRollupManagerAddresses ==
    [ a \in {"bali", "cardona", "mainnet"} |->
        CASE a = "bali"    -> "0xe2ef6215adc132df6913c8dd16487abf118d1764"
          [] a = "cardona" -> "0x32d33D5137a7cFFb54c5Bf8371172bcEc5f310ff"
          [] a = "mainnet" -> "0x5132a183e9f3cb7c848b0aac5ae0c4f0491b7ab2" ]

\* A variant in which the durian entries are no longer commented out.
knownForksWithDurian ==
    [ f \in {"7", "etrog", "9", "elderberry", "12", "banana", "13", "durian"} |->
        CASE f \in {"7", "etrog"}       -> etrog
          [] f \in {"9", "elderberry"}  -> elderberry
          [] f \in {"12", "banana"}     -> banana
          [] f \in {"13", "durian"}     -> 13 ]

knownForks ==
    [ f \in {"7", "etrog", "9", "elderberry", "12", "banana"} |->
        CASE f \in {"7", "etrog"}       -> etrog
          [] f \in {"9", "elderberry"}  -> elderberry
          [] f \in {"12", "banana"}     -> banana ]

\* A uint32 is kept as two 16-bit halves << high, low >>, so that the whole
\* range 0 .. 2^32 - 1 and the wrap-around of an increment are representable.
Half == 256 * 256
U32(n) == << n \div Half, n % Half >>
U32Zero == U32(0)
U32Max == << Half - 1, Half - 1 >>
\* u + 1 in uint32 arithmetic
U32Inc(u) ==
    IF u[2] < Half - 1 THEN << u[1], u[2] + 1 >>
    ELSE IF u[1] < Half - 1 THEN << u[1] + 1, 0 >>
    ELSE U32Zero
\* u <= v
U32Leq(u, v) == u[1] < v[1] \/ (u[1] = v[1] /\ u[2] <= v[2])

\* strconv.IntSize: the width of int on the platform the program is built for.
IntSizes == {32, 64}

\* The top bit of a 16-bit word.
SignBit == Half \div 2

\* ------------------------------------------------------------ value domains
\* Optional values: a nil pointer / nil slice is None, anything else Some(v).
None == << >>
Some(v) == << v >>

\* A nil error.
NoErr == ""

\* Errors a read (an eth_call through the binding) can fail with.
TransportErrors == {"timeout", "connection reset"}

\* Error of a binding constructor handed a broken ABI / client.
ConstructorError == "binding constructor failed"

\* Addresses the chain can report for a dependent contract.
Addresses ==
    {"0x00000000000000000000000000000000000000b1",
     "0x00000000000000000000000000000000000000b2"}

\* Rollup / rollup-type descriptors the chain can report at an index.
Records == {"recA", "recB"}

\* Values of the command-line flags.
ForkFlags == {"", "7", "etrog", "9", "elderberry", "12", "banana", "13"}
RollupManagerAddressFlags ==
    {"mainnet", "0xAAaaAAaaAAaaAAaaAAaaAAaaAAaaAAaaAAaaAAaa", "not-an-address"}
RpcURLs == {"http://localhost:8545", "bad url"}

Commands ==
    {"gerInspect", "gerDump", "gerMonitor",
     "rollupManagerListRollups", "rollupManagerListRollupTypes",
     "rollupManagerInspect", "rollupManagerDump", "rollupManagerMonitor"}

\* ------------------------------------------------------------------- state
VARIABLES
    cmd,        \* the command being run
    inputArgs,  \* cdkInputArgs: the flag values [rpcURL, forkID, rollupManagerAddress]
    step,       \* position in the command body (index into Steps(cmd))
    status,     \* "running", "returned", "watching", "fatal" (log.Fatal, out of memory) or "panic"
    cmdErr,     \* the error the command returned (NoErr for nil)
    locals,     \* the command's local variables, each None until assigned
    pos,        \* the number of the next read of the running fixed-order assembly function
    i,          \* the loop index of the running enumeration (a uint32)
    count,      \* the enumeration's count, None until it has been read
    acc,        \* the record or list under construction in the assembly function
    lastRet,    \* what the last assembly function returned: [fn, val, err]
    trace,      \* everything the run did, in order
    printed,    \* the value handed to the JSON printer, None if nothing was printed
    filter,     \* the customFilter handed to watchNewLogs, None if no watch was started
    watch,      \* the running watch: logs delivered, events yielded, decode errors reported
    loop,       \* an enumeration loop taken on its own: [count, i, reads, done]
    rollupRun   \* a call of parseRollupArgs taken on its own: its flags and what it did

\* The variables of a command run.
cmdVars == << cmd, inputArgs, step, status, cmdErr, locals, pos, i, count, acc, lastRet,
              trace, printed, filter, watch >>
\* The variables of the functions that are examined on their own.
aux == << loop, rollupRun >>

vars == << cmdVars, aux >>

\* ------------------------------------------------------------ trace events
Ev(ev, on, addr, op, idx, val, num, err, ms) ==
    [ev |-> ev, on |-> on, addr |-> addr, op |-> op, idx |-> idx,
     val |-> val, num |-> num, err |-> err, ms |-> ms]

\* A read of op (at index idx) issued against the handle h and answered by r.
ReadEv(h, op, idx, r) == Ev("read", h.kind, h.address, op, idx, r.val, r.num, r.err, 0)
\* The same for a read that takes no index.
Read0Ev(h, op, r) == ReadEv(h, op, U32Zero, r)
\* time.Sleep(contractRequestInterval)
SleepEv == Ev("sleep", "", "", "", U32Zero, "", U32Zero, NoErr, contractRequestInterval)
\* fn returned to the command with error err (NoErr for nil).
ReturnEv(fn, err) == Ev("return", "", "", fn, U32Zero, "", U32Zero, err, 0)
\* A handle of the given kind was resolved at addr.
ResolveEv(kind, addr) == Ev("resolve", kind, addr, "", U32Zero, "", U32Zero, NoErr, 0)
PrintEv == Ev("print", "", "", "", U32Zero, "", U32Zero, NoErr, 0)
WatchEv(addr) == Ev("watch", "", addr, "", U32Zero, "", U32Zero, NoErr, 0)

\* ------------------------------------------------------- the chain's answers
NumOps ==
    {"DepositCount", "RollupCount", "RollupTypeCount", "GetBatchFee",
     "TotalSequencedBatches", "TotalVerifiedBatches", "LastAggregationTimestamp",
     "LastDeactivatedEmergencyStateTimestamp"}

\* String-valued answers (addresses, hashes, descriptors) the chain can give.
StrVals(kind, op) ==
    CASE op \in NumOps -> {}
      [] op = "BridgeAddress" /\ kind = "rollupManager" -> Addresses
      [] op = "GlobalExitRootManager" -> Addresses
      [] op \in {"RollupIDToRollupData", "RollupTypeMap"} -> Records
      [] op = "BridgeAddress" /\ kind = "ger" ->
            {"0x00000000000000000000000000000000000000b1"}
      [] op = "Pol" -> {"0x00000000000000000000000000000000000000c0"}
      [] op = "RollupManager" -> {"0xaaaaaaaaaaaaaaaaaaaaaaaaaaaaaaaaaaaaaaaa"}
      [] OTHER -> {"0x0000000000000000000000000000000000000000000000000000000000000000"}

\* Numeric answers the chain can give.
NumVals(op) ==
    CASE op \in {"RollupCount", "RollupTypeCount"} ->
            {U32(n) : n \in 0 .. MaxCount} \cup {U32Max}
      [] op \in NumOps -> {U32(1)}
      [] OTHER -> {}

\* Every answer to a read: a value with a nil error, or a zero value with an error.
Responses(kind, op) ==
    {[val |-> v, num |-> U32Zero, err |-> NoErr] : v \in StrVals(kind, op)}
        \cup {[val |-> "", num |-> n, err |-> NoErr] : n \in NumVals(op)}
        \cup {[val |-> "", num |-> U32Zero, err |-> e] : e \in TransportErrors}

FieldVal(op, r) == IF op \in NumOps THEN r.num ELSE r.val

\* ---------------------------------------------------------- argument parsing
\* ethclient.DialContext accepts the URL.
DialOk(url) == url = "http://localhost:8545"

\* The characters of a hexadecimal number, and each one in lower case.
HexDigits ==
    {"0", "1", "2", "3", "4", "5", "6", "7", "8", "9",
     "a", "b", "c", "d", "e", "f", "A", "B", "C", "D", "E", "F"}
Lower(c) ==
    CASE c = "A" -> "a" [] c = "B" -> "b" [] c = "C" -> "c"
      [] c = "D" -> "d" [] c = "E" -> "e" [] c = "F" -> "f" [] OTHER -> c

\* The bytes of an address, in hex digits.
AddressLength == 20
AddressDigits == 2 * AddressLength

\* has0xPrefix
has0xPrefix(str) == Len(str) >= 2 /\ SubSeq(str, 1, 2) \in {"0x", "0X"}

\* isHex: an even number of characters, each a hex digit.
isHex(str) == Len(str) % 2 = 0 /\ \A k \in 1 .. Len(str) : SubSeq(str, k, k) \in HexDigits

\* common.IsHexAddress: 40 hex digits after an optional 0x.
IsHexAddress(s) ==
    LET str == IF has0xPrefix(s) THEN SubSeq(s, 3, Len(s)) ELSE s
    IN  Len(str) = AddressDigits /\ isHex(str)

\* common.Hex2Bytes: the bytes (as lower-case hex digits) of the pairs of hex
\* digits str starts with; decoding stops at the first pair that is not hex.
RECURSIVE Hex2Bytes(_)
Hex2Bytes(str) ==
    IF Len(str) < 2 THEN ""
    ELSE IF SubSeq(str, 1, 1) \in HexDigits /\ SubSeq(str, 2, 2) \in HexDigits
    THEN Lower(SubSeq(str, 1, 1)) \o Lower(SubSeq(str, 2, 2))
             \o Hex2Bytes(SubSeq(str, 3, Len(str)))
    ELSE ""

\* common.FromHex: drops the 0x, pads an odd number of digits with a 0.
FromHex(s) ==
    LET str == IF has0xPrefix(s) THEN SubSeq(s, 3, Len(s)) ELSE s
    IN  Hex2Bytes(IF Len(str) % 2 = 1 THEN "0" \o str ELSE str)

\* common.BytesToAddress: the last 20 bytes, padded with zero bytes on the left.
BytesToAddress(b) ==
    LET cut == IF Len(b) > AddressDigits
               THEN SubSeq(b, Len(b) - AddressDigits + 1, Len(b)) ELSE b
    IN  "0x" \o SubSeq("0000000000000000000000000000000000000000", 1,
                       AddressDigits - Len(cut)) \o cut

\* common.HexToAddress: the address a hex string denotes.
HexToAddress(s) == BytesToAddress(FromHex(s))

checkAddressArg(argFlagName, address) ==
    IF ~IsHexAddress(address)
    THEN "invalid flag " \o argFlagName \o ": invalid address"
    ELSE NoErr

\* make([]string, n): n empty strings.
MakeStrings(n) == [x \in 1 .. n |-> ""]

\* for k := range m { keys = append(keys, k) }: the keys in the order the map
\* yields them, which the sort that follows makes immaterial.
RECURSIVE RangeKeys(_)
RangeKeys(S) ==
    IF S = {} THEN << >>
    ELSE LET k == CHOOSE x \in S : TRUE IN << k >> \o RangeKeys(S \ {k})

\* The place of a string in Go's ordering of strings (byte-wise), for the
\* strings that can be a fork key.
StringRank ==
    [ str \in {"", "12", "13", "7", "9", "banana", "durian", "elderberry", "etrog"} |->
        CASE str = ""           -> 0
          [] str = "12"         -> 1
          [] str = "13"         -> 2
          [] str = "7"          -> 3
          [] str = "9"          -> 4
          [] str = "banana"     -> 5
          [] str = "durian"     -> 6
          [] str = "elderberry" -> 7
          [] str = "etrog"      -> 8 ]

\* slices.Sort(keys)
Sort(keys) == SortSeq(keys, LAMBDA x, y : StringRank[x] < StringRank[y])

\* strings.Join(elems, sep)
RECURSIVE Join(_, _)
Join(elems, sep) ==
    IF elems = << >> THEN ""
    ELSE IF Len(elems) = 1 THEN elems[1]
    ELSE elems[1] \o sep \o Join(Tail(elems), sep)

\* The keys slice of parseCDKArgs when the fork-id is not found: allocated
\* with len(knownForks) elements and then appended to.
forkKeys == MakeStrings(Cardinality(DOMAIN knownForks)) \o RangeKeys(DOMAIN knownForks)

\* fmt.Errorf("invalid forkID. supported forkIDs are %s", v)
invalidForkID(v) == "invalid forkID. supported forkIDs are " \o v

\* parseCDKArgs after its dial: [args, err].
parseCDKArgs(in) ==
    IF in.forkID # ""
    THEN IF in.forkID \notin DOMAIN knownForks
         THEN [args |-> None, err |-> invalidForkID(Join(Sort(forkKeys), ", "))]
         ELSE [args |-> Some([rpcURL |-> in.rpcURL, forkID |-> knownForks[in.forkID]]),
               err |-> NoErr]
    ELSE [args |-> Some([rpcURL |-> in.rpcURL, forkID |-> 0]), err |-> NoErr]

\* The binding NewPolygonrollupmanager of a fork constructs.
Binding(fork, address) == [kind |-> "rollupManager", fork |-> fork, address |-> address]

\* parseRollupManagerArgs: [args, err].  ctorErr is what the fork's binding
\* constructor answers when it is called.
parseRollupManagerArgs(in, cdkArgs, ctorErr) ==
    LET found == in.rollupManagerAddress \in DOMAIN knownRollupManagerAddresses
        chk   == checkAddressArg(ArgRollupManagerAddress, in.rollupManagerAddress)
        addr  == IF found
                 THEN HexToAddress(knownRollupManagerAddresses[in.rollupManagerAddress])
                 ELSE HexToAddress(in.rollupManagerAddress)
    IN  IF ~found /\ chk # NoErr
        THEN [args |-> None, err |-> chk]
        ELSE IF cdkArgs.forkID \in {etrog, elderberry, banana}
             THEN IF ctorErr # NoErr
                  THEN [args |-> None, err |-> ctorErr]
                  ELSE [args |-> Some([rollupManager |-> Some(Binding(cdkArgs.forkID, addr)),
                                       rollupManagerAddress |-> addr]),
                        err |-> NoErr]
             ELSE [args |-> Some([rollupManager |-> None, rollupManagerAddress |-> addr]),
                   err |-> NoErr]

\* ------------------------------------------------------------ fork resolver
\* Forks a contract kind has a binding for.
SupportedForks == {etrog, elderberry, banana}

\* getRollupManager / getBridge / getGER: construct the binding of the fork at
\* the address; no network call is made.  [handle, err].
resolve(kind, fork, address, ctorErr) ==
    IF fork \notin SupportedForks
    THEN [handle |-> None, err |-> "unsupported fork"]
    ELSE IF ctorErr # NoErr
         THEN [handle |-> None, err |-> ctorErr]
         ELSE [handle |-> Some([kind |-> kind, fork |-> fork, address |-> address]),
               err |-> NoErr]

\* The loop of an enumeration: for i := uint32(1); i <= count; i++
FirstIndex == U32(1)
LoopCond(x, n) == U32Leq(x, n)
NextIndex(x) == U32Inc(x)

\* The size in bytes of one record of the list (RollupData, RollupTypeData:
\* structs of 12 and of 6 fields).
ElemSizes == {96, 160}

\* A number of bytes, as four 16-bit words (most significant first): the
\* memory the system is able to hand out, with and without a limit in effect.
AvailableMemory == { << 0, 0, Half \div 4, 0 >>, << 0, Half - 1, Half - 1, Half - 1 >> }

\* n * size bytes, for a uint32 n and a size below 2^16.
MemOf(n, size) ==
    LET low  == n[2] * size
        high == n[1] * size + (low \div Half)
    IN  << 0, high \div Half, high % Half, low % Half >>

\* x <= y for two numbers of four words.
WordsLeq(x, y) ==
    \/ x[1] < y[1]
    \/ x[1] = y[1] /\ x[2] < y[2]
    \/ x[1] = y[1] /\ x[2] = y[2] /\ x[3] < y[3]
    \/ x[1] = y[1] /\ x[2] = y[2] /\ x[3] = y[3] /\ x[4] <= y[4]

\* runtime maxAlloc: 2^32 - 1 bytes where int is 32 bits wide, 2^48 otherwise.
MaxAlloc(intSize) ==
    IF intSize = 64 THEN << 1, 0, 0, 0 >> ELSE << 0, 0, Half - 1, Half - 1 >>

\* make([]T, 0, n) passes makeslice's checks: the capacity n fits an int and
\* n * sizeof(T) is at most maxAlloc.  Otherwise: panic, cap out of range.
CapFits(n, intSize, size) ==
    /\ intSize = 64 \/ n[1] < SignBit
    /\ WordsLeq(MemOf(n, size), MaxAlloc(intSize))

\* The system hands out the memory make([]T, 0, n) asks for.  Otherwise:
\* fatal error, out of memory.
Granted(n, size, avail) == WordsLeq(MemOf(n, size), avail)

\* make([]T, 0, n) on a build with the given width of int and record size,
\* the system having avail bytes to hand out: "panic" (cap out of range),
\* "fatal" (out of memory) or "ok".
makeSlice(n, intSize, size, avail) ==
    IF ~CapFits(n, intSize, size) THEN "panic"
    ELSE IF ~Granted(n, size, avail) THEN "fatal"
    ELSE "ok"

\* What make([]T, 0, n) can come to, over the builds and systems.
MakeOutcomes(n) ==
    { makeSlice(n, intSize, size, avail) :
        intSize \in IntSizes, size \in ElemSizes, avail \in AvailableMemory }

\* Most indexed reads of one enumeration that a command run follows: enough
\* for every count up to MaxCount.
MaxFollowed == MaxCount

\* --------------------------------------------------------- command bodies
gerInspectSteps ==
    << "parseCDKArgs", "mustGetRPCClient", "parseRollupManagerArgs", "getRollupManager",
       "getRollupManagerData", "getBridge", "getBridgeData", "getGER", "getGERData",
       "mustPrintJSONIndent" >>

gerDumpSteps ==
    << "parseCDKArgs", "mustGetRPCClient", "parseRollupManagerArgs", "getRollupManager",
       "getRollupManagerData", "getBridge", "getBridgeData", "getGER", "getGERData",
       "mustPrintJSONIndent" >>

gerMonitorSteps ==
    << "parseCDKArgs", "mustGetRPCClient", "parseRollupManagerArgs", "getRollupManager",
       "getRollupManagerData", "getBridge", "getBridgeData", "getGER", "watchNewLogs" >>

rollupManagerListRollupsSteps ==
    << "parseCDKArgs", "mustGetRPCClient", "parseRollupManagerArgs", "getRollupManager",
       "getRollupManagerRollups", "mustLogJSONIndent" >>

rollupManagerListRollupTypesSteps ==
    << "parseCDKArgs", "mustGetRPCClient", "parseRollupManagerArgs", "getRollupManager",
       "getRollupManagerRollupTypes", "mustLogJSONIndent" >>

rollupManagerInspectSteps ==
    << "parseCDKArgs", "mustGetRPCClient", "parseRollupManagerArgs", "getRollupManager",
       "getRollupManagerData", "mustLogJSONIndent" >>

rollupManagerDumpSteps ==
    << "parseCDKArgs", "mustGetRPCClient", "parseRollupManagerArgs", "getRollupManager",
       "getRollupManagerData", "getRollupManagerRollups", "getRollupManagerRollupTypes",
       "mustLogJSONIndent" >>

rollupManagerMonitorSteps == << "panic" >>

Steps(c) ==
    CASE c = "gerInspect" -> gerInspectSteps
      [] c = "gerDump" -> gerDumpSteps
      [] c = "gerMonitor" -> gerMonitorSteps
      [] c = "rollupManagerListRollups" -> rollupManagerListRollupsSteps
      [] c = "rollupManagerListRollupTypes" -> rollupManagerListRollupTypesSteps
      [] c = "rollupManagerInspect" -> rollupManagerInspectSteps
      [] c = "rollupManagerDump" -> rollupManagerDumpSteps
      [] c = "rollupManagerMonitor" -> rollupManagerMonitorSteps

\* The statement the command is at.
Pc == IF status = "running" THEN Steps(cmd)[step] ELSE "done"

\* A variant that returns nil where the call's error should be returned.
AfterStepSwallow(s, err) ==
    IF err # NoErr
    THEN [step |-> s, status |-> "returned", err |-> NoErr]
    ELSE [step |-> s + 1, status |-> "running", err |-> NoErr]

\* `if err != nil { return err }` after the call at step s: where the command
\* goes next, and what it returns if it returns.
AfterStep(s, err) ==
    IF err # NoErr
    THEN [step |-> s, status |-> "returned", err |-> err]
    ELSE [step |-> s + 1, status |-> "running", err |-> NoErr]

\* The command's handling of a call that returned err / assigned val to local v.
Continue(v, val, err) ==
    LET n == AfterStep(step, err) IN
    /\ step' = n.step
    /\ status' = n.status
    /\ cmdErr' = n.err
    /\ locals' = IF err = NoErr THEN [locals EXCEPT ![v] = val] ELSE locals

NoLocals ==
    [cdkArgs |-> None, rollupManagerArgs |-> None, rollupManager |-> None,
     rollupManagerData |-> None, bridge |-> None, bridgeData |-> None, ger |-> None,
     data |-> None, rollups |-> None, rollupTypes |-> None]

NoRet == [fn |-> "", val |-> None, err |-> NoErr]

\* A watch that has received nothing yet.
NoWatch == [logs |-> << >>, events |-> << >>, errors |-> << >>, cancelled |-> FALSE]

\* The value of a variable that takes no part in the specification at hand.
Idle == << >>

Init ==
    /\ watch = NoWatch
    /\ loop = Idle
    /\ rollupRun = Idle
    /\ cmd \in Commands
    /\ inputArgs \in [rpcURL : RpcURLs, forkID : ForkFlags,
                      rollupManagerAddress : RollupManagerAddressFlags]
    /\ step = 1
    /\ status = "running"
    /\ cmdErr = NoErr
    /\ locals = NoLocals
    /\ pos = 1
    /\ i = FirstIndex
    /\ count = None
    /\ acc = << >>
    /\ lastRet = NoRet
    /\ trace = << >>
    /\ printed = None
    /\ filter = None

\* ------------------------------------------------------- parsing / resolving
\* cdkInputArgs.parseCDKArgs(ctx): dials first (log.Fatal on failure), then
\* looks the fork up.
ParseCDKArgs ==
    /\ Pc = "parseCDKArgs"
    /\ IF ~DialOk(inputArgs.rpcURL)
       THEN /\ status' = "fatal"
            /\ UNCHANGED << step, cmdErr, locals, trace >>
       ELSE LET r == parseCDKArgs(inputArgs) IN
            /\ Continue("cdkArgs", r.args, r.err)
            /\ trace' = Append(trace, ReturnEv("parseCDKArgs", r.err))
    /\ UNCHANGED << watch, aux >>
    /\ UNCHANGED << cmd, inputArgs, pos, i, count, acc, lastRet, printed, filter >>

\* rpcClient := mustGetRPCClient(ctx, cdkArgs.rpcURL)
MustGetRPCClient ==
    /\ Pc = "mustGetRPCClient"
    /\ IF ~DialOk(locals.cdkArgs[1].rpcURL)
       THEN /\ status' = "fatal"
            /\ UNCHANGED step
       ELSE /\ step' = step + 1
            /\ UNCHANGED status
    /\ UNCHANGED << watch, aux >>
    /\ UNCHANGED << cmd, inputArgs, cmdErr, locals, pos, i, count, acc, lastRet, trace,
                    printed, filter >>

ParseRollupManagerArgs ==
    /\ Pc = "parseRollupManagerArgs"
    /\ \E ctorErr \in {NoErr, ConstructorError} :
         LET r == parseRollupManagerArgs(inputArgs, locals.cdkArgs[1], ctorErr) IN
         /\ Continue("rollupManagerArgs", r.args, r.err)
         /\ trace' = Append(trace, ReturnEv("parseRollupManagerArgs", r.err))
    /\ UNCHANGED << watch, aux >>
    /\ UNCHANGED << cmd, inputArgs, pos, i, count, acc, lastRet, printed, filter >>

\* A call of one of the three resolvers, at the address addr.
Resolve(fn, kind, v, addr) ==
    /\ Pc = fn
    /\ \E ctorErr \in {NoErr, ConstructorError} :
         LET r == resolve(kind, locals.cdkArgs[1].forkID, addr, ctorErr) IN
         /\ Continue(v, r.handle, r.err)
         /\ trace' = trace \o (IF r.err = NoErr THEN << ResolveEv(kind, addr) >> ELSE << >>)
                           \o << ReturnEv(fn, r.err) >>
    /\ UNCHANGED << watch, aux >>
    /\ UNCHANGED << cmd, inputArgs, pos, i, count, acc, lastRet, printed, filter >>

\* getRollupManager(cdkArgs, rpcClient, rollupManagerArgs.rollupManagerAddress)
GetRollupManager ==
    Resolve("getRollupManager", "rollupManager", "rollupManager",
            locals.rollupManagerArgs[1].rollupManagerAddress)

\* getBridge(cdkArgs, rpcClient, rollupManagerData.BridgeAddress)
GetBridge ==
    Resolve("getBridge", "bridge", "bridge", locals.rollupManagerData[1].BridgeAddress)

\* getGER(cdkArgs, rpcClient, bridgeData.GlobalExitRootManager)
GetGER ==
    Resolve("getGER", "ger", "ger", locals.bridgeData[1].GlobalExitRootManager)

\* ------------------------------------------------------- snapshot assembly
\* A variant with two neighbouring reads exchanged.
GERReadOrderSwapped ==
    << "BridgeAddress", "DepositCount", "GetRoot", "GetLastGlobalExitRoot",
       "LastMainnetExitRoot", "LastRollupExitRoot", "RollupManager" >>

\* The reads of getGERData, in the order it issues them.
GERReadOrder ==
    << "BridgeAddress", "DepositCount", "GetLastGlobalExitRoot", "GetRoot",
       "LastMainnetExitRoot", "LastRollupExitRoot", "RollupManager" >>

\* The reads of getRollupManagerData, in the order it issues them.
RollupManagerReadOrder ==
    << "Pol", "BridgeAddress", "RollupCount", "GetBatchFee", "TotalSequencedBatches",
       "TotalVerifiedBatches", "LastAggregationTimestamp",
       "LastDeactivatedEmergencyStateTimestamp" >>

\* The read of getBridgeData that discovers the GER.
BridgeReadOrder == << "GlobalExitRootManager" >>

\* The struct field a read's result is assigned to.
FieldOf(op) ==
    CASE op = "GetRoot" -> "Root"
      [] op = "GetBatchFee" -> "BatchFee"
      [] OTHER -> op

\* A variant that hands the partly filled value back together with the error.
FailReturnPartial(partial, e) == [val |-> Some(partial), err |-> e]

\* `return nil, err`: what an assembly function returns when a read failed with
\* e while it held the partly filled value partial.
FailReturn(partial, e) == [val |-> None, err |-> e]

\* A variant that pauses before looking at the error.
AfterReadSleepFirst(err) == << SleepEv >>

\* What follows a read inside an assembly function before the next statement:
\* `if err != nil { return }` comes before time.Sleep(contractRequestInterval).
AfterRead(err) == IF err = NoErr THEN << SleepEv >> ELSE << >>

\* The assembly function fn returns (val, err) to the command, which assigns
\* the value to its local v or returns the error.
Return(fn, v, val, err) ==
    /\ lastRet' = [fn |-> fn, val |-> val, err |-> err]
    /\ Continue(v, val, err)
    /\ pos' = 1
    /\ i' = FirstIndex
    /\ count' = None
    /\ acc' = << >>

\* One read of a fixed-order assembly function and what follows it up to the
\* next read (or the return).
Assemble(fn, h, order, v) ==
    /\ Pc = fn
    /\ \E r \in Responses(h.kind, order[pos]) :
         LET op   == order[pos]
             rd   == Read0Ev(h, op, r)
             data == acc @@ (FieldOf(op) :> FieldVal(op, r))
         IN  IF r.err # NoErr
             THEN LET ret == FailReturn(acc, r.err) IN
                  /\ trace' = trace \o << rd >> \o AfterRead(r.err) \o << ReturnEv(fn, ret.err) >>
                  /\ Return(fn, v, ret.val, ret.err)
             ELSE IF pos = Len(order)
                  THEN /\ trace' = trace \o << rd >> \o AfterRead(r.err) \o << ReturnEv(fn, NoErr) >>
                       /\ Return(fn, v, Some(data), NoErr)
                  ELSE /\ trace' = trace \o << rd >> \o AfterRead(r.err)
                       /\ pos' = pos + 1
                       /\ acc' = data
                       /\ UNCHANGED << step, status, cmdErr, locals, i, count, lastRet >>
    /\ UNCHANGED << watch, aux >>
    /\ UNCHANGED << cmd, inputArgs, printed, filter >>

\* One read of an enumeration and what follows it up to the next read (or the
\* return): first the count and the allocation of the list, then the indexed
\* reads.
Enumerate(fn, h, countOp, indexOp, v) ==
    /\ Pc = fn
    /\ IF count = None
       THEN \E r \in Responses(h.kind, countOp) :
              LET rd == Read0Ev(h, countOp, r) IN
              IF r.err # NoErr
              THEN LET ret == FailReturn(acc, r.err) IN
                   /\ trace' = trace \o << rd, ReturnEv(fn, ret.err) >>
                   /\ Return(fn, v, ret.val, ret.err)
              ELSE \E made \in MakeOutcomes(r.num) :
                   IF made # "ok"
                   THEN /\ trace' = trace \o << rd >>
                        /\ status' = made
                        /\ count' = Some(r.num)
                        /\ UNCHANGED << step, cmdErr, locals, pos, i, acc, lastRet >>
                   ELSE IF LoopCond(FirstIndex, r.num)
                   THEN /\ trace' = trace \o << rd >>
                        /\ count' = Some(r.num)
                        /\ i' = FirstIndex
                        /\ acc' = << >>
                        /\ UNCHANGED << step, status, cmdErr, locals, pos, lastRet >>
                   ELSE /\ trace' = trace \o << rd, ReturnEv(fn, NoErr) >>
                        /\ Return(fn, v, Some(<< >>), NoErr)
       ELSE /\ Len(acc) < MaxFollowed
            /\ \E r \in Responses(h.kind, indexOp) :
              LET rd   == ReadEv(h, indexOp, i, r)
                  list == Append(acc, r.val)
                  nxt  == NextIndex(i)
              IN  IF r.err # NoErr
                  THEN LET ret == FailReturn(acc, r.err) IN
                       /\ trace' = trace \o << rd, ReturnEv(fn, ret.err) >>
                       /\ Return(fn, v, ret.val, ret.err)
                  ELSE IF LoopCond(nxt, count[1])
                       THEN /\ trace' = trace \o << rd >> \o AfterRead(r.err)
                            /\ i' = nxt
                            /\ acc' = list
                            /\ UNCHANGED << step, status, cmdErr, locals, pos, count, lastRet >>
                       ELSE /\ trace' = trace \o << rd >> \o AfterRead(r.err)
                                          \o << ReturnEv(fn, NoErr) >>
                            /\ Return(fn, v, Some(list), NoErr)
    /\ UNCHANGED << watch, aux >>
    /\ UNCHANGED << cmd, inputArgs, printed, filter >>

GetRollupManagerData ==
    Assemble("getRollupManagerData", locals.rollupManager[1], RollupManagerReadOrder,
             "rollupManagerData")

GetBridgeData ==
    Assemble("getBridgeData", locals.bridge[1], BridgeReadOrder, "bridgeData")

GetGERData ==
    Assemble("getGERData", locals.ger[1], GERReadOrder, "data")

GetRollupManagerRollups ==
    Enumerate("getRollupManagerRollups", locals.rollupManager[1], "RollupCount",
              "RollupIDToRollupData", "rollups")

GetRollupManagerRollupTypes ==
    Enumerate("getRollupManagerRollupTypes", locals.rollupManager[1], "RollupTypeCount",
              "RollupTypeMap", "rollupTypes")

\* ------------------------------------------------------ output and watching
\* The value a command prints.
Output(c, l) ==
    CASE c = "gerInspect" -> l.data[1]
      [] c = "gerDump" -> [Data |-> l.data[1]]
      [] c = "rollupManagerListRollups" -> l.rollups[1]
      [] c = "rollupManagerListRollupTypes" -> l.rollupTypes[1]
      [] c = "rollupManagerInspect" -> l.rollupManagerData[1]
      [] c = "rollupManagerDump" ->
            [Data |-> l.rollupManagerData[1], Rollups |-> l.rollups[1],
             RollupTypes |-> l.rollupTypes[1]]

PrintAndReturn ==
    /\ printed' = Some(Output(cmd, locals))
    /\ trace' = Append(trace, PrintEv)
    /\ status' = "returned"
    /\ cmdErr' = NoErr
    /\ UNCHANGED << watch, aux >>
    /\ UNCHANGED << cmd, inputArgs, step, locals, pos, i, count, acc, lastRet, filter >>

\* mustPrintJSONIndent(data); return nil
MustPrintJSONIndent ==
    /\ Pc = "mustPrintJSONIndent"
    /\ PrintAndReturn

\* mustLogJSONIndent(data); return nil
MustLogJSONIndent ==
    /\ Pc = "mustLogJSONIndent"
    /\ PrintAndReturn

\* A variant that filters on the bridge instead of the GER.
gerFilterAddressesBridge(l) == << l.rollupManagerData[1].BridgeAddress >>

\* The address set of gerMonitor's log filter.
gerFilterAddresses(l) == << l.bridgeData[1].GlobalExitRootManager >>

\* gerMonitor builds its filter and calls watchNewLogs, which either fails to
\* establish the watch or keeps watching.
WatchNewLogs ==
    /\ Pc = "watchNewLogs"
    /\ filter' = Some([contractInstance |-> locals.ger[1],
                       contractABI |-> locals.ger[1].fork,
                       Addresses |-> gerFilterAddresses(locals)])
    /\ \E e \in {NoErr} \cup TransportErrors :
         IF e # NoErr
         THEN /\ status' = "returned"
              /\ cmdErr' = e
              /\ trace' = Append(trace, ReturnEv("watchNewLogs", e))
         ELSE /\ status' = "watching"
              /\ cmdErr' = NoErr
              /\ trace' = Append(trace, WatchEv(gerFilterAddresses(locals)[1]))
    /\ UNCHANGED << watch, aux >>
    /\ UNCHANGED << cmd, inputArgs, step, locals, pos, i, count, acc, lastRet, printed >>

\* What a raw log turns out to be when it is matched against the handle's ABI:
\* a known signature that decodes, a known signature that fails structural
\* decoding, or a signature the ABI does not have.
LogKinds == {"valid", "malformed", "unknown"}

\* The decoded event of a log.
Decode(log) == [name |-> "event", position |-> log.position]

\* A variant of the watch's handling of a log that stops yielding after a
\* decode error.
ClassifyStopAtError(w, log) ==
    [w EXCEPT !.logs = Append(@, log),
              !.events = IF log.kind = "valid" /\ w.errors = << >>
                         THEN Append(@, Decode(log)) ELSE @,
              !.errors = IF log.kind = "malformed" THEN Append(@, log.position) ELSE @]

\* The watch's handling of one delivered log: yield the decoded event, report
\* a decode error, or skip the log.
Classify(w, log) ==
    [w EXCEPT !.logs = Append(@, log),
              !.events = IF log.kind = "valid" THEN Append(@, Decode(log)) ELSE @,
              !.errors = IF log.kind = "malformed" THEN Append(@, log.position) ELSE @]

\* The transport delivers the next log matching the filter.
DeliverLog ==
    /\ status = "watching"
    /\ Len(watch.logs) < MaxLogs
    /\ \E kind \in LogKinds :
         watch' = Classify(watch, [position |-> Len(watch.logs) + 1, kind |-> kind])
    /\ UNCHANGED aux
    /\ UNCHANGED << cmd, inputArgs, step, status, cmdErr, locals, pos, i, count, acc,
                    lastRet, trace, printed, filter >>

\* The cancel signal fires: the watch ends and gerMonitor returns nil.
CancelWatch ==
    /\ status = "watching"
    /\ watch' = [watch EXCEPT !.cancelled = TRUE]
    /\ status' = "returned"
    /\ cmdErr' = NoErr
    /\ trace' = Append(trace, ReturnEv("watchNewLogs", NoErr))
    /\ UNCHANGED aux
    /\ UNCHANGED << cmd, inputArgs, step, locals, pos, i, count, acc, lastRet, printed,
                    filter >>

\* rollupManagerMonitor: panic("not implemented")
RollupManagerMonitor ==
    /\ Pc = "panic"
    /\ status' = "panic"
    /\ UNCHANGED << watch, aux >>
    /\ UNCHANGED << cmd, inputArgs, step, cmdErr, locals, pos, i, count, acc, lastRet, trace,
                    printed, filter >>

Next ==
    \/ ParseCDKArgs
    \/ MustGetRPCClient
    \/ ParseRollupManagerArgs
    \/ GetRollupManager
    \/ GetRollupManagerData
    \/ GetBridge
    \/ GetBridgeData
    \/ GetGER
    \/ GetGERData
    \/ GetRollupManagerRollups
    \/ GetRollupManagerRollupTypes
    \/ MustPrintJSONIndent
    \/ MustLogJSONIndent
    \/ WatchNewLogs
    \/ DeliverLog
    \/ CancelWatch
    \/ RollupManagerMonitor

Spec == Init /\ [][Next]_vars

\* ------------------------------------------------------- reading the trace
IsRead(e) == e.ev = "read"
IsSleep(e) == e.ev = "sleep"
IsReturn(e) == e.ev = "return"

Max(S) == CHOOSE x \in S : \A y \in S : y <= x

\* The function fn has returned in this run.
Returned(fn) == \E j \in 1 .. Len(trace) : IsReturn(trace[j]) /\ trace[j].op = fn
\* Where fn returned.
ReturnAt(fn) == CHOOSE j \in 1 .. Len(trace) : IsReturn(trace[j]) /\ trace[j].op = fn
\* The last return strictly before position j (0 if none).
ReturnBefore(j) == Max({0} \cup {m \in 1 .. (j - 1) : IsReturn(trace[m])})

\* What the invocation of fn did so far: its reads and pauses, in order.
Segment(fn) ==
    IF Returned(fn)
    THEN SubSeq(trace, ReturnBefore(ReturnAt(fn)) + 1, ReturnAt(fn) - 1)
    ELSE IF Pc = fn
         THEN SubSeq(trace, ReturnBefore(Len(trace) + 1) + 1, Len(trace))
         ELSE << >>

\* The reads the invocation of fn issued so far, in order.
ReadsOf(fn) == SelectSeq(Segment(fn), IsRead)
\* The error fn returned.
ErrOf(fn) == trace[ReturnAt(fn)].err

AssemblyFns ==
    {"getGERData", "getRollupManagerData", "getRollupManagerRollups",
     "getRollupManagerRollupTypes"}

GERCommands == {"gerInspect", "gerDump", "gerMonitor"}

\* The number of reads a successful run of a fixed-order assembly function issues.
FullLength(fn) == IF fn = "getGERData" THEN 7 ELSE 8

\* ------------------------------------------------------------------ claims

\* C1: snapshot assembly is all-or-nothing.  Whenever one of getGERData,
\* getRollupManagerData, getRollupManagerRollups, getRollupManagerRollupTypes has
\* returned: if any of its reads failed it returned a non-nil error and a nil
\* record/list, and a non-nil record/list comes only with a nil error, after
\* every read of the sequence succeeded, and is fully populated.
C1_AllOrNothing ==
    lastRet.fn \in AssemblyFns =>
        LET reads  == ReadsOf(lastRet.fn)
            failed == \E j \in 1 .. Len(reads) : reads[j].err # NoErr
        IN  /\ failed => (lastRet.err # NoErr /\ lastRet.val = None)
            /\ lastRet.err # NoErr => lastRet.val = None
            /\ lastRet.val # None =>
                 /\ lastRet.err = NoErr
                 /\ ~failed
                 /\ IF lastRet.fn \in {"getGERData", "getRollupManagerData"}
                    THEN /\ Len(reads) = FullLength(lastRet.fn)
                         /\ Cardinality(DOMAIN lastRet.val[1]) = FullLength(lastRet.fn)
                    ELSE /\ reads[1].num = U32(Len(lastRet.val[1]))
                         /\ Len(reads) = 1 + Len(lastRet.val[1])

\* The third read of getRollupManagerData failed after two fields were filled.
C1_Witness ==
    /\ lastRet.fn = "getRollupManagerData"
    /\ lastRet.err # NoErr
    /\ Len(ReadsOf("getRollupManagerData")) = 3

\* C2: the first failing read aborts the assembly at once.  A read that
\* returned an error is followed directly by the function's return, with no
\* further read and no pause in between or afterwards, and the function
\* returns exactly the error that read produced.
C2_FirstFailureAborts ==
    \A j \in 1 .. Len(trace) :
        (IsRead(trace[j]) /\ trace[j].err # NoErr) =>
            /\ j < Len(trace)
            /\ IsReturn(trace[j + 1])
            /\ trace[j + 1].err = trace[j].err
            /\ \A m \in (j + 1) .. Len(trace) : ~IsRead(trace[m]) /\ ~IsSleep(trace[m])
            /\ lastRet.err = trace[j].err
            /\ lastRet.fn = trace[j + 1].op

\* The fourth read of getGERData failed.
C2_Witness ==
    /\ Returned("getGERData")
    /\ ErrOf("getGERData") \in TransportErrors
    /\ Len(ReadsOf("getGERData")) = 4

\* C3: resolving a rollup manager for a fork without a binding is an error.
\* Whenever parseRollupManagerArgs has returned for a fork other than etrog,
\* elderberry and banana (0 included, which parseCDKArgs leaves for an empty
\* fork-id), it returned a non-nil error, and it never returns a result whose
\* rollupManager handle is unset.
C3_UnsupportedForkIsError ==
    Returned("parseRollupManagerArgs") =>
        /\ locals.cdkArgs[1].forkID \notin {etrog, elderberry, banana}
               => ErrOf("parseRollupManagerArgs") # NoErr
        /\ locals.rollupManagerArgs # None
               => locals.rollupManagerArgs[1].rollupManager # None

\* C4: enumeration is 1-based and contiguous.  In getRollupManagerRollups and
\* getRollupManagerRollupTypes the count is read exactly once and first; the
\* reads that follow are indexed reads with indices 1, 2, ... in ascending
\* order, never beyond the count N; and when the function returns a list, it
\* issued exactly N indexed reads and the k-th element of the list is the
\* record the read at index k returned (N = 0: empty list, no indexed read).
\* This for every count N the count read can answer: a run of a command that
\* enumerates never ends in a panic or a fatal error of the runtime.
EnumerationContract(fn, countOp, indexOp, v) ==
    LET reads == ReadsOf(fn)
        list  == locals[v][1]
    IN  reads # << >> =>
        /\ reads[1].op = countOp
        /\ \A j \in 2 .. Len(reads) :
              /\ reads[j].op = indexOp
              /\ reads[j].idx = U32(j - 1)
              /\ U32Leq(reads[j].idx, reads[1].num)
        /\ (Returned(fn) /\ ErrOf(fn) = NoErr) =>
              /\ U32(Len(reads) - 1) = reads[1].num
              /\ locals[v] # None
              /\ Len(list) = Len(reads) - 1
              /\ \A n \in 1 .. Len(list) : list[n] = reads[n + 1].val

C4_EnumerationOneBasedContiguous ==
    /\ (count # None /\ cmd # "rollupManagerMonitor") => status \notin {"panic", "fatal"}
    /\ EnumerationContract("getRollupManagerRollups", "RollupCount",
                           "RollupIDToRollupData", "rollups")
    /\ EnumerationContract("getRollupManagerRollupTypes", "RollupTypeCount",
                           "RollupTypeMap", "rollupTypes")

\* Where in the trace the handle of the given kind was resolved (0 if not yet).
ResolvedAt(kind) ==
    Max({0} \cup {j \in 1 .. Len(trace) : trace[j].ev = "resolve" /\ trace[j].on = kind})

\* The reads issued against handles of the given kind between positions a and b.
ReadsBetween(kind, a, b) ==
    SelectSeq(SubSeq(trace, a + 1, b - 1), LAMBDA e : IsRead(e) /\ e.on = kind)

\* C5: each discovery step of the chain walk is a single-field query.  In the
\* GER commands, between resolving the rollup manager and resolving the bridge
\* exactly one read, BridgeAddress, is issued against the rollup manager, and
\* between resolving the bridge and resolving the GER exactly one read,
\* GlobalExitRootManager, is issued against the bridge.
C5_SingleFieldDiscovery ==
    cmd \in GERCommands =>
        /\ ResolvedAt("bridge") # 0 =>
             LET r == ReadsBetween("rollupManager", ResolvedAt("rollupManager"),
                                   ResolvedAt("bridge"))
             IN  Len(r) = 1 /\ r[1].op = "BridgeAddress"
        /\ ResolvedAt("ger") # 0 =>
             LET r == ReadsBetween("bridge", ResolvedAt("bridge"), ResolvedAt("ger"))
             IN  Len(r) = 1 /\ r[1].op = "GlobalExitRootManager"

\* The value the (single) read of op against the handle kind returned in this run.
ReadValue(kind, op) ==
    LET j == CHOOSE m \in 1 .. Len(trace) :
                 IsRead(trace[m]) /\ trace[m].on = kind /\ trace[m].op = op
    IN  trace[j].val

\* C6: dependent addresses are discovered, never configured.  In the GER
\* commands the bridge handle is resolved at exactly the address the rollup
\* manager's BridgeAddress read of this run returned, the GER handle at
\* exactly the address the bridge's GlobalExitRootManager read returned, and
\* the monitor's filter address set is exactly that one GER address.
C6_AddressesDiscovered ==
    cmd \in GERCommands =>
        /\ ResolvedAt("bridge") # 0 =>
             /\ trace[ResolvedAt("bridge")].addr = ReadValue("rollupManager", "BridgeAddress")
             /\ locals.bridge[1].address = ReadValue("rollupManager", "BridgeAddress")
        /\ ResolvedAt("ger") # 0 =>
             /\ trace[ResolvedAt("ger")].addr = ReadValue("bridge", "GlobalExitRootManager")
             /\ locals.ger[1].address = ReadValue("bridge", "GlobalExitRootManager")
        /\ filter # None =>
             /\ filter[1].Addresses = << ReadValue("bridge", "GlobalExitRootManager") >>
             /\ filter[1].contractInstance.address = filter[1].Addresses[1]

\* A watch was started on a GER whose address differs from the bridge's.
C6_Witness ==
    /\ cmd = "gerMonitor"
    /\ status = "watching"
    /\ filter # None
    /\ locals.bridge[1].address # locals.ger[1].address

\* The steps of the chain walk.
DiscoverySteps ==
    {"parseCDKArgs", "parseRollupManagerArgs", "getRollupManager", "getRollupManagerData",
     "getBridge", "getBridgeData", "getGER"}

\* C7: any failure in the discovery chain aborts the whole walk.  In the GER
\* commands, once one of the chain's steps has returned an error, the command
\* has returned exactly that error, nothing was executed after the failing
\* step, nothing was printed and no watch was started.
C7_DiscoveryFailureAborts ==
    cmd \in GERCommands =>
        \A j \in 1 .. Len(trace) :
            (IsReturn(trace[j]) /\ trace[j].op \in DiscoverySteps /\ trace[j].err # NoErr) =>
                /\ j = Len(trace)
                /\ status = "returned"
                /\ cmdErr = trace[j].err
                /\ printed = None
                /\ filter = None

\* gerMonitor stopped because resolving the GER failed.
C7_Witness ==
    /\ cmd = "gerMonitor"
    /\ Returned("getGER")
    /\ ErrOf("getGER") # NoErr
    /\ status = "returned"

\* The order contract of a fixed-order assembly function: the reads issued so
\* far are a prefix of the order, a failing read is the last one issued, and a
\* successful return has issued the whole order.
OrderContract(fn, order) ==
    LET reads == ReadsOf(fn) IN
    /\ Len(reads) <= Len(order)
    /\ \A j \in 1 .. Len(reads) :
          /\ reads[j].op = order[j]
          /\ reads[j].err # NoErr => j = Len(reads)
    /\ (Returned(fn) /\ ErrOf(fn) = NoErr) => Len(reads) = Len(order)

\* C8: assembly issues its reads in one fixed order and never retries.
\* getGERData reads BridgeAddress, DepositCount, GetLastGlobalExitRoot, GetRoot,
\* LastMainnetExitRoot, LastRollupExitRoot, RollupManager; getRollupManagerData
\* reads Pol, BridgeAddress, RollupCount, GetBatchFee, TotalSequencedBatches,
\* TotalVerifiedBatches, LastAggregationTimestamp,
\* LastDeactivatedEmergencyStateTimestamp; each exactly once and in that order
\* when the function succeeds, a prefix of it when a read fails, and the
\* failing read is not issued again.
C8_FixedOrderNoRetry ==
    /\ OrderContract("getGERData",
           << "BridgeAddress", "DepositCount", "GetLastGlobalExitRoot", "GetRoot",
              "LastMainnetExitRoot", "LastRollupExitRoot", "RollupManager" >>)
    /\ OrderContract("getRollupManagerData",
           << "Pol", "BridgeAddress", "RollupCount", "GetBatchFee",
              "TotalSequencedBatches", "TotalVerifiedBatches", "LastAggregationTimestamp",
              "LastDeactivatedEmergencyStateTimestamp" >>)

\* Both snapshots were assembled in full in one run.
C8_Witness ==
    /\ Returned("getGERData")
    /\ ErrOf("getGERData") = NoErr
    /\ Len(ReadsOf("getGERData")) = 7
    /\ Len(ReadsOf("getRollupManagerData")) = 8

\* An error that names the field (or index) that was being fetched.
Tagged(op, idx, cause) == op \o ToString(idx) \o ": " \o cause

\* C9: an assembly error is tagged with the field that was being fetched.
\* When a read fails during an assembly function, the error the function
\* returns identifies the field (or index) of that read, so that the same
\* transport error at two positions gives two distinguishable errors.
C9_ErrorTagged ==
    \A fn \in AssemblyFns :
        (Returned(fn) /\ ErrOf(fn) # NoErr) =>
            LET reads == ReadsOf(fn)
                last  == reads[Len(reads)]
            IN  \E cause \in TransportErrors :
                    ErrOf(fn) = Tagged(last.op, last.idx, cause)

\* C10: reads are rate-limited by a pause between calls.  Any two consecutive
\* reads issued against one handle in a run are separated by at least one
\* pause of contractRequestInterval, the count read and the first indexed
\* read of an enumeration included.
C10_PauseBetweenReads ==
    \A a, b \in 1 .. Len(trace) :
        ( /\ a < b
          /\ IsRead(trace[a]) /\ IsRead(trace[b])
          /\ trace[a].on = trace[b].on
          /\ \A m \in (a + 1) .. (b - 1) : ~IsRead(trace[m]) )
        => \E m \in (a + 1) .. (b - 1) :
               IsSleep(trace[m]) /\ trace[m].ms >= contractRequestInterval

\* C11: every supported fork resolves.  For every fork-id that is a key of
\* knownForks, when parseRollupManagerArgs has returned for a valid rollup
\* manager address and the binding constructor did not fail, it returned a nil
\* error and a result whose rollup-manager handle is set, bound to the fork
\* the key maps to.
C11_SupportedForkResolves ==
    ( /\ Returned("parseRollupManagerArgs")
      /\ inputArgs.forkID \in DOMAIN knownForks
      /\ \/ inputArgs.rollupManagerAddress \in DOMAIN knownRollupManagerAddresses
         \/ IsHexAddress(inputArgs.rollupManagerAddress)
      /\ ErrOf("parseRollupManagerArgs") # ConstructorError )
    =>  /\ ErrOf("parseRollupManagerArgs") = NoErr
        /\ locals.rollupManagerArgs # None
        /\ locals.rollupManagerArgs[1].rollupManager # None
        /\ locals.rollupManagerArgs[1].rollupManager[1].fork = knownForks[inputArgs.forkID]

\* parseRollupManagerArgs resolved the elderberry binding from the key "9".
C11_Witness ==
    /\ inputArgs.forkID = "9"
    /\ Returned("parseRollupManagerArgs")
    /\ locals.rollupManagerArgs # None
    /\ locals.rollupManagerArgs[1].rollupManager # None
    /\ locals.rollupManagerArgs[1].rollupManager[1].fork = elderberry

\* C12: the rollup-manager monitor command hands a resolved rollup-manager
\* handle to the event monitor.  A run of it never ends in a panic, and when
\* it has stopped being in progress a watch filtered on the rollup-manager
\* address was started.
C12_RollupManagerMonitorWatches ==
    cmd = "rollupManagerMonitor" =>
        /\ status # "panic"
        /\ status # "running" => filter # None

\* The events a sequence of delivered logs must have yielded.
ExpectedEvents(logs) ==
    LET valid == SelectSeq(logs, LAMBDA l : l.kind = "valid")
    IN  [n \in 1 .. Len(valid) |-> [name |-> "event", position |-> valid[n].position]]

\* The decode errors a sequence of delivered logs must have reported.
ExpectedErrors(logs) ==
    LET bad == SelectSeq(logs, LAMBDA l : l.kind = "malformed")
    IN  [n \in 1 .. Len(bad) |-> bad[n].position]

\* C13: the event watch classifies each delivered log without terminating.
\* For any sequence of delivered logs the watch has yielded exactly one
\* decoded event per log with a known signature that decodes, in delivery
\* order, has reported exactly one decode error per log with a known signature
\* that fails to decode, has yielded and reported nothing for a log with an
\* unrecognized signature, and is still watching unless it was cancelled.
C13_WatchClassifiesLogs ==
    /\ watch.events = ExpectedEvents(watch.logs)
    /\ watch.errors = ExpectedErrors(watch.logs)
    /\ (watch.logs # << >> /\ ~watch.cancelled) => status = "watching"
    /\ watch.logs # << >> => (filter # None /\ cmd = "gerMonitor")

\* A malformed log, an unknown log and then a valid log were delivered, and
\* the watch goes on.
C13_Witness ==
    /\ status = "watching"
    /\ Len(watch.logs) = 3
    /\ watch.logs[1].kind = "malformed"
    /\ watch.logs[2].kind = "unknown"
    /\ watch.logs[3].kind = "valid"
    /\ Len(watch.events) = 1
    /\ Len(watch.errors) = 1

\* C14: in a rollup-manager dump the rollup list agrees with the reported
\* count.  Whenever the dump has been printed, the number of records under
\* "rollups" equals the rollupCount field under "data", whatever the two
\* RollupCount reads of the dump returned.
C14_DumpListAgreesWithCount ==
    (cmd = "rollupManagerDump" /\ printed # None) =>
        U32(Len(printed[1].Rollups)) = printed[1].Data.RollupCount

\* C18: parseCDKArgs rejects an unknown fork-id with an error that lists
\* exactly the supported fork IDs.  A non-empty fork-id that is not a key of
\* knownForks yields a nil result and an error whose comma-separated list is
\* the keys of knownForks, each once, in sorted order, with no empty or extra
\* entry; a fork-id that is a key yields the forkID the key maps to.
C18_ForkErrorListsSupportedKeys ==
    (Returned("parseCDKArgs") /\ inputArgs.forkID # "") =>
        IF inputArgs.forkID \in DOMAIN knownForks
        THEN /\ ErrOf("parseCDKArgs") = NoErr
             /\ locals.cdkArgs # None
             /\ locals.cdkArgs[1].forkID = knownForks[inputArgs.forkID]
        ELSE /\ locals.cdkArgs = None
             /\ ErrOf("parseCDKArgs")
                  = invalidForkID(Join(Sort(RangeKeys(DOMAIN knownForks)), ", "))

\* ------------------------------------------- the enumeration loop on its own
\* getRollupManagerRollups / getRollupManagerRollupTypes from the allocation
\* of the list on, with every read succeeding, for counts over the whole
\* uint32 range and for both widths of int.  A run starts either at the
\* allocation or at a later test of the loop condition, with the index the
\* earlier successful reads left behind.

\* The command variables while no command is running.
NoCommand ==
    /\ cmd = "" /\ inputArgs = Idle /\ step = 1 /\ status = "idle" /\ cmdErr = NoErr
    /\ locals = Idle /\ pos = 1 /\ i = FirstIndex /\ count = None /\ acc = << >>
    /\ lastRet = NoRet /\ trace = << >> /\ printed = None /\ filter = None
    /\ watch = NoWatch

\* The uint32 values within NearMax of 2^32 - 1.
NearU32Max == { << Half - 1, Half - 1 - d >> : d \in 0 .. NearMax }

\* The counts RollupCount / RollupTypeCount answer.
LoopCounts == { U32(n) : n \in 0 .. MaxCount } \cup NearU32Max

\* The index at a later test of the loop condition: one that the reads of
\* all indices below it have led to.
LoopStarts(n) == { x \in NearU32Max : LoopCond(x, n) }

InitLoop ==
    /\ NoCommand
    /\ rollupRun = Idle
    /\ \E fn \in {"getRollupManagerRollups", "getRollupManagerRollupTypes"} :
       \E n \in LoopCounts :
       \E intSize \in IntSizes :
       \E size \in ElemSizes :
       \E avail \in AvailableMemory :
         LET run == [fn |-> fn, intSize |-> intSize, elemSize |-> size, avail |-> avail,
                     count |-> n, state |-> "make", i |-> FirstIndex, reads |-> << >>]
         IN  \/ loop = run
             \/ /\ CapFits(n, intSize, size)
                /\ Granted(n, size, avail)
                /\ \E x \in LoopStarts(n) : loop = [run EXCEPT !.state = "loop", !.i = x]

\* rollups := make([]RollupData, 0, rollupCount): a panic when the capacity
\* is out of range, a fatal "out of memory" when the system does not have the
\* memory, otherwise the loop is entered.
MakeSlice ==
    /\ loop.state = "make"
    /\ LET made == makeSlice(loop.count, loop.intSize, loop.elemSize, loop.avail) IN
       loop' = [loop EXCEPT !.state = IF made = "ok" THEN "loop" ELSE made]
    /\ UNCHANGED << cmdVars, rollupRun >>

\* The loop condition holds: the body reads index i, appends, sleeps, and i++.
LoopRead ==
    /\ loop.state = "loop"
    /\ LoopCond(loop.i, loop.count)
    /\ Len(loop.reads) < MaxLoopReads
    /\ loop' = [loop EXCEPT !.reads = Append(@, loop.i), !.i = NextIndex(loop.i)]
    /\ UNCHANGED << cmdVars, rollupRun >>

\* The loop condition fails: the function returns its list.
LoopReturn ==
    /\ loop.state = "loop"
    /\ ~LoopCond(loop.i, loop.count)
    /\ loop' = [loop EXCEPT !.state = "returned"]
    /\ UNCHANGED << cmdVars, rollupRun >>

NextLoop ==
    \/ MakeSlice
    \/ LoopRead
    \/ LoopReturn

SpecLoop == InitLoop /\ [][NextLoop]_vars

\* C15: enumeration terminates for every count the handle can report.  For
\* every uint32 count, the maximum 2^32 - 1 included, and with every indexed
\* read succeeding, the function does not panic and the index never wraps
\* around to 0 and restarts: the loop never tests or reads index 0, and the
\* indices it reads go strictly upwards (so there are finitely many of them).
C15_EnumerationTerminates ==
    /\ loop.state # "panic"
    /\ loop.i # U32Zero
    /\ \A n \in 1 .. Len(loop.reads) :
         /\ loop.reads[n] # U32Zero
         /\ n > 1 => (U32Leq(loop.reads[n - 1], loop.reads[n])
                      /\ loop.reads[n - 1] # loop.reads[n])

\* ------------------------------------------------ parseRollupArgs on its own
ArgRollupChainID == "rollup-chain-id"
ArgRollupID == "rollup-id"
ArgRollupAddress == "rollup-address"

\* Values of the rollup flags.
RollupIDFlags ==
    {"", "0", "7", "2147483648", "4294967295", "4294967296", "4294967303", "-1", "abc",
     "9223372036854775808"}
RollupChainIDFlags == {"", "0", "1101", "-1", "abc"}
RollupAddressFlags ==
    {"", "0xAAaaAAaaAAaaAAaaAAaaAAaaAAaaAAaaAAaaAAaa",
     "0x0000000000000000000000000000000000000000", "0xAAaa",
     "not-an-address"}

\* The integer a string denotes in base 10, as a sign and four 16-bit words
\* (most significant first); ok is FALSE for a string that is no integer.
Decimal ==
    [ str \in (RollupIDFlags \cup RollupChainIDFlags) \ {""} |->
        CASE str = "0"          -> [ok |-> TRUE, neg |-> FALSE, mag |-> << 0, 0, 0, 0 >>]
          [] str = "7"          -> [ok |-> TRUE, neg |-> FALSE, mag |-> << 0, 0, 0, 7 >>]
          [] str = "1101"       -> [ok |-> TRUE, neg |-> FALSE, mag |-> << 0, 0, 0, 1101 >>]
          [] str = "2147483648" -> [ok |-> TRUE, neg |-> FALSE, mag |-> << 0, 0, SignBit, 0 >>]
          [] str = "4294967295" -> [ok |-> TRUE, neg |-> FALSE,
                                    mag |-> << 0, 0, Half - 1, Half - 1 >>]
          [] str = "4294967296" -> [ok |-> TRUE, neg |-> FALSE, mag |-> << 0, 1, 0, 0 >>]
          [] str = "4294967303" -> [ok |-> TRUE, neg |-> FALSE, mag |-> << 0, 1, 0, 7 >>]
          [] str = "9223372036854775808"
                                -> [ok |-> TRUE, neg |-> FALSE, mag |-> << SignBit, 0, 0, 0 >>]
          [] str = "-1"         -> [ok |-> TRUE, neg |-> TRUE, mag |-> << 0, 0, 0, 1 >>]
          [] OTHER              -> [ok |-> FALSE, neg |-> FALSE, mag |-> << 0, 0, 0, 0 >>] ]

\* The integer fits a signed integer of the given width.
InRange(n, bitSize) ==
    IF bitSize = 64
    THEN n.mag[1] < SignBit \/ (n.neg /\ n.mag = << SignBit, 0, 0, 0 >>)
    ELSE /\ n.mag[1] = 0
         /\ n.mag[2] = 0
         /\ n.mag[3] < SignBit \/ (n.neg /\ n.mag = << 0, 0, SignBit, 0 >>)

\* The largest and the smallest signed integer of the given width.
MaxInt(bitSize) ==
    IF bitSize = 64
    THEN [neg |-> FALSE, mag |-> << SignBit - 1, Half - 1, Half - 1, Half - 1 >>]
    ELSE [neg |-> FALSE, mag |-> << 0, 0, SignBit - 1, Half - 1 >>]
MinInt(bitSize) ==
    IF bitSize = 64
    THEN [neg |-> TRUE, mag |-> << SignBit, 0, 0, 0 >>]
    ELSE [neg |-> TRUE, mag |-> << 0, 0, SignBit, 0 >>]

\* strconv.ParseInt(str, 10, bitSize): [val, err].  A string that is no
\* integer gives 0 and a syntax error; an integer that does not fit gives the
\* nearest integer of the width and a range error.
ParseInt(str, bitSize) ==
    LET n == Decimal[str] IN
    IF ~n.ok
    THEN [val |-> [neg |-> FALSE, mag |-> << 0, 0, 0, 0 >>], err |-> "invalid syntax"]
    ELSE IF ~InRange(n, bitSize)
    THEN [val |-> IF n.neg THEN MinInt(bitSize) ELSE MaxInt(bitSize),
          err |-> "value out of range"]
    ELSE [val |-> [neg |-> n.neg, mag |-> n.mag], err |-> NoErr]

\* strconv.Atoi(str): ParseInt at the width of int.
Atoi(str, intSize) == ParseInt(str, intSize)

\* uint32(n) of a non-negative int: the low 32 bits.
Uint32(n) == << n.mag[3], n.mag[4] >>

\* uint64(n) of a non-negative int64.
Uint64(n) == n.mag

\* common.Address{}
ZeroAddress == "0x0000000000000000000000000000000000000000"

\* What the rollup manager answers to a lookup of a rollup ID.
LookupResponses ==
    {[num |-> U32(n), err |-> NoErr] : n \in {0, 5}}
        \cup {[num |-> U32Zero, err |-> e] : e \in TransportErrors}

\* A variant of the choice of lookup that prefers the address.
lookupOpAddressFirst(rollupChainID, rollupAddress) ==
    IF rollupAddress # ZeroAddress THEN "RollupAddressToID"
    ELSE IF rollupChainID # Uint64(Decimal["0"]) THEN "ChainIDToRollupID"
    ELSE "none"

\* The lookup parseRollupArgs issues when no rollup-id is given: by chain ID
\* if there is one, else by address if there is one.
lookupOp(rollupChainID, rollupAddress) ==
    IF rollupChainID # Uint64(Decimal["0"]) THEN "ChainIDToRollupID"
    ELSE IF rollupAddress # ZeroAddress THEN "RollupAddressToID"
    ELSE "none"

\* return nil, err
RollupArgsFail(err, reads) == [args |-> None, err |-> err, reads |-> reads]

\* parseRollupArgs for the flags in at the given width of int, with rsp the
\* rollup manager's answer to a lookup: [args, err, reads].
parseRollupArgs(in, intSize, rsp) ==
    LET chainN        == ParseInt(in.rollupChainID, 64)
        rollupChainID == IF in.rollupChainID # "" THEN Uint64(chainN.val)
                         ELSE Uint64(Decimal["0"])
        addrErr       == checkAddressArg(ArgRollupAddress, in.rollupAddress)
        rollupAddress == IF in.rollupAddress # "" THEN HexToAddress(in.rollupAddress)
                         ELSE ZeroAddress
        idN           == Atoi(in.rollupID, intSize)
        op            == lookupOp(rollupChainID, rollupAddress)
        rd            == [op |-> op,
                          arg |-> IF op = "ChainIDToRollupID" THEN rollupChainID
                                  ELSE << rollupAddress >>,
                          num |-> rsp.num, err |-> rsp.err]
    IN  IF in.rollupChainID # "" /\ (chainN.err # NoErr \/ chainN.val.neg)
        THEN RollupArgsFail("invalid rollupChainID: " \o in.rollupID
                                \o ", it must be a valid uint64", << >>)
        ELSE IF in.rollupAddress # "" /\ addrErr # NoErr
        THEN RollupArgsFail(addrErr, << >>)
        ELSE IF in.rollupID # ""
        THEN IF idN.err # NoErr \/ idN.val.neg
             THEN RollupArgsFail("invalid rollupID: " \o in.rollupID
                                     \o ", it must be a valid uint32", << >>)
             ELSE [args |-> Some([rollupID |-> Uint32(idN.val),
                                  rollupChainID |-> rollupChainID,
                                  rollupAddress |-> rollupAddress]),
                   err |-> NoErr, reads |-> << >>]
        ELSE IF rollupChainID = Uint64(Decimal["0"]) /\ rollupAddress = ZeroAddress
        THEN RollupArgsFail(ArgRollupID \o ", " \o ArgRollupChainID \o ", or "
                                \o ArgRollupAddress \o " must be provided", << >>)
        ELSE IF op = "none"
        THEN [args |-> Some([rollupID |-> U32Zero, rollupChainID |-> rollupChainID,
                             rollupAddress |-> rollupAddress]),
              err |-> NoErr, reads |-> << >>]
        ELSE IF rsp.err # NoErr
        THEN RollupArgsFail(rsp.err, << rd >>)
        ELSE [args |-> Some([rollupID |-> rsp.num, rollupChainID |-> rollupChainID,
                             rollupAddress |-> rollupAddress]),
              err |-> NoErr, reads |-> << rd >>]

InitRollupArgs ==
    /\ NoCommand
    /\ loop = Idle
    /\ \E in \in [rollupID : RollupIDFlags, rollupChainID : RollupChainIDFlags,
                  rollupAddress : RollupAddressFlags] :
       \E intSize \in IntSizes :
         rollupRun = [in |-> in, intSize |-> intSize, done |-> FALSE,
                      args |-> None, err |-> NoErr, reads |-> << >>]

\* cdkInputArgs.parseRollupArgs(ctx, rollupManagerArgs), the rollup manager
\* handle being resolved.
ParseRollupArgs ==
    /\ ~rollupRun.done
    /\ \E rsp \in LookupResponses :
         LET out == parseRollupArgs(rollupRun.in, rollupRun.intSize, rsp) IN
         rollupRun' = [rollupRun EXCEPT !.done = TRUE, !.args = out.args,
                                        !.err = out.err, !.reads = out.reads]
    /\ UNCHANGED << cmdVars, loop >>

NextRollupArgs == ParseRollupArgs

SpecRollupArgs == InitRollupArgs /\ [][NextRollupArgs]_vars

\* The flags of a run pass parseRollupArgs' validation of the chain ID and
\* of the address.
FlagsValid(in) ==
    /\ in.rollupChainID # "" =>
          (ParseInt(in.rollupChainID, 64).err = NoErr /\ ~Decimal[in.rollupChainID].neg)
    /\ in.rollupAddress # "" => IsHexAddress(in.rollupAddress)

\* The chain ID and the address the flags of a run denote.
ChainIDOf(in) ==
    IF in.rollupChainID = "" THEN << 0, 0, 0, 0 >> ELSE Decimal[in.rollupChainID].mag
AddressOf(in) ==
    IF in.rollupAddress = "" THEN ZeroAddress ELSE HexToAddress(in.rollupAddress)

\* C16: parseRollupArgs selects the rollup ID by a fixed precedence with at
\* most one contract read.  After a call with valid chain-id and address
\* flags: a non-empty rollup-id flag means no read, and on success the ID is
\* the flag's parsed value (as a uint32); otherwise a non-zero chain ID means
\* exactly one ChainIDToRollupID read of that chain ID, whose answer is the ID
\* (or whose error is the error); otherwise a non-zero address means exactly
\* one RollupAddressToID read of that address, likewise; otherwise an error
\* and no read.  A call with an invalid flag issues no read.
C16_RollupIDPrecedence ==
    rollupRun.done =>
        LET in == rollupRun.in
            fromRead(op, arg) ==
                /\ Len(rollupRun.reads) = 1
                /\ rollupRun.reads[1].op = op
                /\ rollupRun.reads[1].arg = arg
                /\ rollupRun.err = rollupRun.reads[1].err
                /\ IF rollupRun.err = NoErr
                   THEN /\ rollupRun.args # None
                        /\ rollupRun.args[1].rollupID = rollupRun.reads[1].num
                   ELSE rollupRun.args = None
        IN  /\ Len(rollupRun.reads) <= 1
            /\ ~FlagsValid(in) => (rollupRun.reads = << >> /\ rollupRun.err # NoErr)
            /\ FlagsValid(in) =>
                 IF in.rollupID # ""
                 THEN /\ rollupRun.reads = << >>
                      /\ rollupRun.err = NoErr =>
                           /\ rollupRun.args # None
                           /\ rollupRun.args[1].rollupID = Uint32(Decimal[in.rollupID])
                 ELSE IF ChainIDOf(in) # << 0, 0, 0, 0 >>
                 THEN fromRead("ChainIDToRollupID", ChainIDOf(in))
                 ELSE IF AddressOf(in) # ZeroAddress
                 THEN fromRead("RollupAddressToID", << AddressOf(in) >>)
                 ELSE /\ rollupRun.reads = << >>
                      /\ rollupRun.err # NoErr
                      /\ rollupRun.args = None

\* With no rollup-id but both a chain ID and an address given, the ID came
\* from one ChainIDToRollupID read.
C16_Witness ==
    /\ rollupRun.done
    /\ rollupRun.in.rollupID = ""
    /\ rollupRun.in.rollupChainID = "1101"
    /\ rollupRun.in.rollupAddress = "0xAAaaAAaaAAaaAAaaAAaaAAaaAAaaAAaaAAaaAAaa"
    /\ Len(rollupRun.reads) = 1
    /\ rollupRun.reads[1].op = "ChainIDToRollupID"
    /\ rollupRun.args # None
    /\ rollupRun.args[1].rollupID = U32(5)

\* C17: a rollup ID supplied on the command line is accepted only if it is a
\* valid uint32.  For every decimal rollup-id flag, parseRollupArgs either
\* returns an error or returns a rollupID numerically equal to the input; an
\* input outside 0 .. 2^32 - 1 is rejected, never reduced modulo 2^32.
C17_RollupIDIsValidUint32 ==
    ( /\ rollupRun.done
      /\ rollupRun.in.rollupID # ""
      /\ Decimal[rollupRun.in.rollupID].ok
      /\ rollupRun.err = NoErr )
    =>  LET n == Decimal[rollupRun.in.rollupID] IN
        /\ ~n.neg
        /\ n.mag = << 0, 0, rollupRun.args[1].rollupID[1], rollupRun.args[1].rollupID[2] >>

====
